---- MODULE Spec2Model ----
(***************************************************************************)
(* Configuration resolution of gonzo (cmd/gonzo/main.go): the flag schema  *)
(* registered in init(), the viper bindings, initConfig() and main().      *)
(*                                                                         *)
(* One behaviour is one process run.  The command line, the environment,   *)
(* the file system and the outcome of os.UserHomeDir are inputs fixed in   *)
(* the initial state; the actions are the steps of rootCmd.Execute():      *)
(* flag parsing, the cobra initializer initConfig, the handler runApp and   *)
(* the return of main.                                                     *)
(*                                                                         *)
(* Raw values are strings.  Durations are counted in milliseconds.         *)
(***************************************************************************)
EXTENDS Naturals, Sequences, FiniteSets, TLC

(***************************************************************************)
(* Strings                                                                 *)
(***************************************************************************)
Char(s, i) == SubSeq(s, i, i)

Contains(s, c) == \E i \in 1..Len(s) : Char(s, i) = c

\* strings.IndexByte: the first position of c in s, 0 when there is none
IndexOf(s, c) ==
  IF Contains(s, c)
  THEN CHOOSE i \in 1..Len(s) : Char(s, i) = c /\ \A j \in 1..(i - 1) : Char(s, j) # c
  ELSE 0

HasPrefix(s, p) == Len(s) >= Len(p) /\ SubSeq(s, 1, Len(p)) = p

HasSuffix(s, p) == Len(s) >= Len(p) /\ SubSeq(s, Len(s) - Len(p) + 1, Len(s)) = p

TrimPrefix(s, p) == IF HasPrefix(s, p) THEN SubSeq(s, Len(p) + 1, Len(s)) ELSE s

TrimSuffix(s, p) == IF HasSuffix(s, p) THEN SubSeq(s, 1, Len(s) - Len(p)) ELSE s

LowerLetters == "abcdefghijklmnopqrstuvwxyz"

UpperLetters == "ABCDEFGHIJKLMNOPQRSTUVWXYZ"

UpperChar(c) ==
  IF Contains(LowerLetters, c) THEN Char(UpperLetters, IndexOf(LowerLetters, c)) ELSE c

RECURSIVE ToUpper(_)
\* strings.ToUpper
ToUpper(s) == IF s = "" THEN "" ELSE UpperChar(Char(s, 1)) \o ToUpper(Tail(s))

RECURSIVE ReplaceChar(_, _, _)
\* strings.NewReplacer(old, new).Replace for one-character old and new
ReplaceChar(s, old, new) ==
  IF s = "" THEN ""
  ELSE (IF Char(s, 1) = old THEN new ELSE Char(s, 1)) \o ReplaceChar(Tail(s), old, new)

RECURSIVE SplitDropEmpty(_, _)
\* a split that drops the empty items, as strings.FieldsFunc does
SplitDropEmpty(s, sep) ==
  LET i == IndexOf(s, sep)
      head == IF i = 0 THEN s ELSE SubSeq(s, 1, i - 1)
      rest == IF i = 0 THEN <<>> ELSE SplitDropEmpty(SubSeq(s, i + 1, Len(s)), sep)
  IN  (IF head = "" THEN <<>> ELSE <<head>>) \o rest

RECURSIVE Split(_, _)
\* strings.Split(s, sep) for a one-character sep: Split("", sep) is <<"">>
Split(s, sep) ==
  IF ~Contains(s, sep) THEN <<s>>
  ELSE <<SubSeq(s, 1, IndexOf(s, sep) - 1)>>
         \o Split(SubSeq(s, IndexOf(s, sep) + 1, Len(s)), sep)

RECURSIVE Join(_, _)
\* strings.Join
Join(l, sep) ==
  IF l = <<>> THEN ""
  ELSE IF Len(l) = 1 THEN l[1]
  ELSE l[1] \o sep \o Join(Tail(l), sep)

(***************************************************************************)
(* Numbers: strconv                                                        *)
(***************************************************************************)
Digits == "0123456789"

DigitChars == {"0", "1", "2", "3", "4", "5", "6", "7", "8", "9"}

IsDigit(c) == c \in DigitChars

DigitVal(c) ==
  CASE c = "0" -> 0 [] c = "1" -> 1 [] c = "2" -> 2 [] c = "3" -> 3 [] c = "4" -> 4
    [] c = "5" -> 5 [] c = "6" -> 6 [] c = "7" -> 7 [] c = "8" -> 8 [] c = "9" -> 9

AllDigits(s) == \A i \in 1..Len(s) : IsDigit(Char(s, i))

RECURSIVE ParseBase(_, _)
\* the value of the digit string s in the given base
ParseBase(s, base) ==
  IF s = "" THEN 0
  ELSE ParseBase(SubSeq(s, 1, Len(s) - 1), base) * base + DigitVal(Char(s, Len(s)))

\* strconv.ParseInt(s, 0, 64) on unsigned digit strings: a leading 0 selects
\* base 8.  Signs, 0x/0b/0o prefixes and underscores are not drawn as inputs.
ParseInt(s) ==
  IF s = "" \/ ~AllDigits(s) THEN [ok |-> FALSE, v |-> 0]
  ELSE IF Len(s) > 1 /\ Char(s, 1) = "0"
  THEN IF \A i \in 1..Len(s) : DigitVal(Char(s, i)) < 8
       THEN [ok |-> TRUE, v |-> ParseBase(s, 8)]
       ELSE [ok |-> FALSE, v |-> 0]
  ELSE [ok |-> TRUE, v |-> ParseBase(s, 10)]

RECURSIVE Itoa(_)
\* strconv.Itoa for n >= 0
Itoa(n) ==
  IF n < 10 THEN Char(Digits, n + 1)
  ELSE Itoa(n \div 10) \o Char(Digits, (n % 10) + 1)

\* strconv.ParseBool
ParseBool(s) ==
  IF s \in {"1", "t", "T", "TRUE", "true", "True"} THEN [ok |-> TRUE, v |-> TRUE]
  ELSE IF s \in {"0", "f", "F", "FALSE", "false", "False"} THEN [ok |-> TRUE, v |-> FALSE]
  ELSE [ok |-> FALSE, v |-> FALSE]

\* strconv.FormatBool
FormatBool(b) == IF b THEN "true" ELSE "false"

(***************************************************************************)
(* Durations: package time, in milliseconds                                *)
(***************************************************************************)
\* time.Second, in milliseconds
Second == 1000

\* the number of leading characters of s that satisfy (or not) IsDigit
LeadingRun(s, digit) ==
  IF \A i \in 1..Len(s) : IsDigit(Char(s, i)) = digit THEN Len(s)
  ELSE (CHOOSE i \in 1..Len(s) :
          /\ IsDigit(Char(s, i)) # digit
          /\ \A j \in 1..(i - 1) : IsDigit(Char(s, j)) = digit) - 1

UnitNames == {"ms", "s", "m", "h"}

UnitOf(u) ==
  CASE u = "ms" -> 1
    [] u = "s" -> Second
    [] u = "m" -> 60 * Second
    [] u = "h" -> 3600 * Second

RECURSIVE ParseComponents(_, _)
\* the loop of time.ParseDuration: <digits><unit> one after the other; a unit
\* is the run of characters up to the next digit.  Fractions, signs and the
\* units below the millisecond are not drawn as inputs.
ParseComponents(s, acc) ==
  IF s = "" THEN [ok |-> TRUE, v |-> acc]
  ELSE LET n == LeadingRun(s, TRUE)
           rest == SubSeq(s, n + 1, Len(s))
           u == LeadingRun(rest, FALSE)
           unit == SubSeq(rest, 1, u)
       IN  IF n = 0 \/ unit \notin UnitNames THEN [ok |-> FALSE, v |-> 0]
           ELSE ParseComponents(SubSeq(rest, u + 1, Len(rest)),
                                acc + ParseBase(SubSeq(s, 1, n), 10) * UnitOf(unit))

\* time.ParseDuration: "0" is the zero duration, "" is an error
ParseDuration(s) ==
  IF s = "0" THEN [ok |-> TRUE, v |-> 0]
  ELSE IF s = "" THEN [ok |-> FALSE, v |-> 0]
  ELSE ParseComponents(s, 0)

\* time.Duration.String for the durations the model reaches: below a second
\* in ms, otherwise whole seconds as [<h>h][<m>m]<s>s
FormatDuration(d) ==
  IF d = 0 THEN "0s"
  ELSE IF d < Second THEN Itoa(d) \o "ms"
  ELSE LET h == d \div (3600 * Second)
           m == (d % (3600 * Second)) \div (60 * Second)
           s == (d % (60 * Second)) \div Second
       IN  (IF h > 0 THEN Itoa(h) \o "h" ELSE "")
             \o (IF h > 0 \/ m > 0 THEN Itoa(m) \o "m" ELSE "")
             \o Itoa(s) \o "s"

(***************************************************************************)
(* CSV records: encoding/csv as pflag and viper use it for string slices   *)
(***************************************************************************)
Comma == ","

Quote == "\""

RECURSIVE QuotedField(_, _)
RECURSIVE CsvFields(_)
\* csv.Reader.readRecord on a one-line record, inside a quoted field: s is
\* the text after the opening quote, acc the field so far
QuotedField(s, acc) ==
  LET i == IndexOf(s, Quote)
      after == SubSeq(s, i + 1, Len(s))
  IN  IF i = 0 THEN [ok |-> FALSE, l |-> <<>>]
      ELSE IF after = "" THEN [ok |-> TRUE, l |-> <<acc \o SubSeq(s, 1, i - 1)>>]
      ELSE IF Char(after, 1) = Quote
      THEN QuotedField(Tail(after), acc \o SubSeq(s, 1, i - 1) \o Quote)
      ELSE IF Char(after, 1) = Comma
      THEN LET r == CsvFields(Tail(after))
           IN  [ok |-> r.ok, l |-> <<acc \o SubSeq(s, 1, i - 1)>> \o r.l]
      ELSE [ok |-> FALSE, l |-> <<>>]

\* csv.Reader.readRecord on a one-line record: the fields of s
CsvFields(s) ==
  IF s # "" /\ Char(s, 1) = Quote THEN QuotedField(Tail(s), "")
  ELSE LET i == IndexOf(s, Comma)
           field == IF i = 0 THEN s ELSE SubSeq(s, 1, i - 1)
       IN  IF Contains(field, Quote) THEN [ok |-> FALSE, l |-> <<>>]
           ELSE IF i = 0 THEN [ok |-> TRUE, l |-> <<field>>]
           ELSE LET r == CsvFields(SubSeq(s, i + 1, Len(s)))
                IN  [ok |-> r.ok, l |-> <<field>> \o r.l]

\* readAsCSV of pflag (string_slice.go) and of viper: "" is the empty list
ReadAsCSV(s) == IF s = "" THEN [ok |-> TRUE, l |-> <<>>] ELSE CsvFields(s)

\* csv.Writer.fieldNeedsQuotes
FieldNeedsQuotes(f) ==
  f # "" /\ (Contains(f, Comma) \/ Contains(f, Quote) \/ Char(f, 1) = " ")

RECURSIVE EscapeQuotes(_)
EscapeQuotes(f) ==
  IF f = "" THEN ""
  ELSE (IF Char(f, 1) = Quote THEN Quote \o Quote ELSE Char(f, 1)) \o EscapeQuotes(Tail(f))

RECURSIVE WriteAsCSV(_)
\* writeAsCSV of pflag: one record, the trailing newline trimmed
WriteAsCSV(l) ==
  IF l = <<>> THEN ""
  ELSE (IF FieldNeedsQuotes(l[1]) THEN Quote \o EscapeQuotes(l[1]) \o Quote ELSE l[1])
         \o (IF Len(l) = 1 THEN "" ELSE Comma \o WriteAsCSV(Tail(l)))

(***************************************************************************)
(* The flag schema: init(), main.go lines 140-160                          *)
(***************************************************************************)
IntFlags == {"memory-size", "log-buffer", "otlp-grpc-port", "otlp-http-port"}

DurationFlags == {"update-interval"}

BoolFlags == {"test-mode", "version", "follow", "otlp-enabled",
              "disable-version-check", "reverse-scroll-wheel"}

StringFlags == {"config", "ai-model", "vmlogs-url", "vmlogs-user", "vmlogs-password",
                "vmlogs-query", "skin", "format"}

StringSliceFlags == {"file", "stop-words"}

FlagNames == IntFlags \cup DurationFlags \cup BoolFlags \cup StringFlags \cup StringSliceFlags

\* pflag's Value.Type() of a flag
FlagType(f) ==
  CASE f \in IntFlags -> "int"
    [] f \in DurationFlags -> "duration"
    [] f \in BoolFlags -> "bool"
    [] f \in StringFlags -> "string"
    [] f \in StringSliceFlags -> "stringSlice"

DefaultMemorySize == 10000

DefaultLogBuffer == 1000

DefaultOTLPGRPCPort == 4317

DefaultOTLPHTTPPort == 4318

\* the defaults with the two OTLP ports exchanged
FlagDefaultPortsSwapped(f) ==
  CASE f = "memory-size" -> DefaultMemorySize
    [] f = "update-interval" -> 1 * Second
    [] f = "log-buffer" -> DefaultLogBuffer
    [] f = "otlp-grpc-port" -> DefaultOTLPHTTPPort
    [] f = "otlp-http-port" -> DefaultOTLPGRPCPort
    [] f = "vmlogs-query" -> "*"
    [] f = "skin" -> "default"
    [] f \in BoolFlags -> FALSE
    [] f \in StringSliceFlags -> <<>>
    [] OTHER -> ""

\* the default each flag is registered with
FlagDefault(f) ==
  CASE f = "memory-size" -> DefaultMemorySize
    [] f = "update-interval" -> 1 * Second
    [] f = "log-buffer" -> DefaultLogBuffer
    [] f = "otlp-grpc-port" -> DefaultOTLPGRPCPort
    [] f = "otlp-http-port" -> DefaultOTLPHTTPPort
    [] f = "vmlogs-query" -> "*"
    [] f = "skin" -> "default"
    [] f \in BoolFlags -> FALSE
    [] f \in StringSliceFlags -> <<>>
    [] OTHER -> ""

(***************************************************************************)
(* The typed record: type Config, main.go lines 28-49                      *)
(***************************************************************************)
IntFields == {"memory-size", "log-buffer", "otlp-grpc-port", "otlp-http-port"}

DurationFields == {"update-interval"}

BoolFields == {"test-mode", "follow", "otlp-enabled", "disable-version-check",
               "reverse-scroll-wheel"}

StringFields == {"config", "ai-model", "vmlogs-url", "vmlogs-user", "vmlogs-password",
                 "vmlogs-query", "skin", "format"}

StringSliceFields == {"files", "stop-words"}

\* the mapstructure tags of Config
ConfigFields ==
  IntFields \cup DurationFields \cup BoolFields \cup StringFields \cup StringSliceFields

FieldType(k) ==
  CASE k \in IntFields -> "int"
    [] k \in DurationFields -> "duration"
    [] k \in BoolFields -> "bool"
    [] k \in StringFields -> "string"
    [] k \in StringSliceFields -> "stringSlice"

\* the zero value of a Go type
ZeroValue(t) ==
  CASE t \in {"int", "duration"} -> 0
    [] t = "bool" -> FALSE
    [] t = "string" -> ""
    [] t = "stringSlice" -> <<>>

\* var cfg Config
ZeroConfig == [k \in ConfigFields |-> ZeroValue(FieldType(k))]

(***************************************************************************)
(* The viper bindings: init(), main.go lines 163-181                       *)
(***************************************************************************)
\* the keys of the viper.BindPFlag calls
BoundKeys ==
  {"memory-size", "update-interval", "log-buffer", "test-mode", "ai-model", "files",
   "follow", "otlp-enabled", "otlp-grpc-port", "otlp-http-port", "vmlogs-url",
   "vmlogs-user", "vmlogs-password", "vmlogs-query", "skin", "stop-words", "format",
   "disable-version-check", "reverse-scroll-wheel"}

\* the flag each key is bound to: rootCmd.Flags().Lookup(...)
BoundFlag(k) == IF k = "files" THEN "file" ELSE k

(***************************************************************************)
(* pflag: setting, storing and printing a flag value                       *)
(***************************************************************************)
\* Value.Set of the flag type t on the command-line text raw
PflagSet(t, raw) ==
  CASE t = "int" -> ParseInt(raw)
    [] t = "duration" -> ParseDuration(raw)
    [] t = "bool" -> ParseBool(raw)
    [] t = "string" -> [ok |-> TRUE, v |-> raw]
    [] t = "stringSlice" -> LET r == ReadAsCSV(raw) IN [ok |-> r.ok, v |-> r.l]

\* Value.String of the flag type t on the stored value v
PflagString(t, v) ==
  CASE t = "int" -> Itoa(v)
    [] t = "duration" -> FormatDuration(v)
    [] t = "bool" -> FormatBool(v)
    [] t = "string" -> v
    [] t = "stringSlice" -> "[" \o WriteAsCSV(v) \o "]"

(***************************************************************************)
(* viper: values, lookup order, decoding                                   *)
(***************************************************************************)
Nil == [kind |-> "nil"]

IntV(n) == [kind |-> "int", val |-> n]

BoolV(b) == [kind |-> "bool", val |-> b]

StrV(s) == [kind |-> "str", val |-> s]

ListV(l) == [kind |-> "list", val |-> l]

\* what viper's find returns for a bound flag: the switch on flag.ValueType()
\* over flag.ValueString()
FlagSetting(t, v) ==
  LET s == PflagString(t, v)
  IN  CASE t = "int" -> IntV(ParseInt(s).v)
        [] t = "bool" -> BoolV(ParseBool(s).v)
        [] t = "stringSlice" -> ListV(ReadAsCSV(TrimSuffix(TrimPrefix(s, "["), "]")).l)
        [] OTHER -> StrV(s)

\* viper.SetEnvPrefix("GONZO")
EnvPrefix == "GONZO"

\* the name without the key replacer: the hyphens of the key are kept
EnvKeyHyphens(key) == ToUpper(EnvPrefix \o "_" \o key)

\* viper.SetEnvKeyReplacer(strings.NewReplacer("-", "_")) applied in getEnv to
\* mergeWithEnvPrefix(key) = strings.ToUpper(prefix + "_" + key)
EnvKey(key) == ReplaceChar(ToUpper(EnvPrefix \o "_" \o key), "-", "_")

\* the environment variable of each bound key
EnvKeys == [k \in BoundKeys |-> EnvKey(k)]

\* viper.getEnv: an empty variable counts as unset (AllowEmptyEnv is off)
GetEnv(env, name) ==
  IF name \in DOMAIN env /\ env[name] # "" THEN StrV(env[name]) ELSE Nil

\* the YAML decoder's typing of a plain scalar
YamlScalar(raw) ==
  IF ParseInt(raw).ok /\ (Len(raw) = 1 \/ Char(raw, 1) # "0") THEN IntV(ParseInt(raw).v)
  ELSE IF raw \in {"true", "false"} THEN BoolV(raw = "true")
  ELSE StrV(raw)

\* a lookup in which a bound flag gives its value whether changed or not, so
\* that its default shadows the environment and the file
FindFlagAlways(key, chg, fv, env, config) ==
  IF key \in BoundKeys
  THEN FlagSetting(FlagType(BoundFlag(key)), fv[BoundFlag(key)])
  ELSE IF key \in DOMAIN config THEN YamlScalar(config[key])
  ELSE Nil

\* a lookup in which the default of a bound flag shadows the file
FindDefaultFirst(key, chg, fv, env, config) ==
  IF key \in BoundKeys /\ BoundFlag(key) \in chg
  THEN FlagSetting(FlagType(BoundFlag(key)), fv[BoundFlag(key)])
  ELSE IF key \in BoundKeys /\ GetEnv(env, EnvKeys[key]) # Nil
  THEN GetEnv(env, EnvKeys[key])
  ELSE IF key \in BoundKeys
  THEN FlagSetting(FlagType(BoundFlag(key)), fv[BoundFlag(key)])
  ELSE IF key \in DOMAIN config THEN YamlScalar(config[key])
  ELSE Nil

\* viper.find(key): a changed flag, then the environment, then the
\* configuration file, then the flag's default
Find(key, chg, fv, env, config) ==
  IF key \in BoundKeys /\ BoundFlag(key) \in chg
  THEN FlagSetting(FlagType(BoundFlag(key)), fv[BoundFlag(key)])
  ELSE IF key \in BoundKeys /\ GetEnv(env, EnvKeys[key]) # Nil
  THEN GetEnv(env, EnvKeys[key])
  ELSE IF key \in DOMAIN config THEN YamlScalar(config[key])
  ELSE IF key \in BoundKeys
  THEN FlagSetting(FlagType(BoundFlag(key)), fv[BoundFlag(key)])
  ELSE Nil

\* viper.AllKeys: the bound flags and the keys of the file that was read
AllKeys(config) == BoundKeys \cup DOMAIN config

\* mapstructure's decoding of one value into a field of type t, with viper's
\* decoder configuration: WeaklyTypedInput, StringToTimeDurationHookFunc and
\* StringToSliceHookFunc(",")
Decode(t, sv) ==
  CASE t = "int" ->
         (CASE sv.kind = "int" -> [ok |-> TRUE, v |-> sv.val]
            [] sv.kind = "bool" -> [ok |-> TRUE, v |-> IF sv.val THEN 1 ELSE 0]
            [] sv.kind = "str" ->
                 IF sv.val = "" THEN [ok |-> TRUE, v |-> 0] ELSE ParseInt(sv.val)
            [] OTHER -> [ok |-> FALSE, v |-> 0])
    [] t = "duration" ->
         (CASE sv.kind = "str" -> ParseDuration(sv.val)
            [] sv.kind = "int" -> [ok |-> TRUE, v |-> sv.val \div (Second * Second)]
            [] sv.kind = "bool" -> [ok |-> TRUE, v |-> 0]
            [] OTHER -> [ok |-> FALSE, v |-> 0])
    [] t = "bool" ->
         (CASE sv.kind = "bool" -> [ok |-> TRUE, v |-> sv.val]
            [] sv.kind = "int" -> [ok |-> TRUE, v |-> sv.val # 0]
            [] sv.kind = "str" ->
                 IF sv.val = "" THEN [ok |-> TRUE, v |-> FALSE] ELSE ParseBool(sv.val)
            [] OTHER -> [ok |-> FALSE, v |-> FALSE])
    [] t = "string" ->
         (CASE sv.kind = "str" -> [ok |-> TRUE, v |-> sv.val]
            [] sv.kind = "int" -> [ok |-> TRUE, v |-> Itoa(sv.val)]
            [] sv.kind = "bool" -> [ok |-> TRUE, v |-> IF sv.val THEN "1" ELSE "0"]
            [] OTHER -> [ok |-> FALSE, v |-> ""])
    [] t = "stringSlice" ->
         (CASE sv.kind = "list" -> [ok |-> TRUE, v |-> sv.val]
            [] sv.kind = "str" ->
                 [ok |-> TRUE, v |-> IF sv.val = "" THEN <<>> ELSE Split(sv.val, Comma)]
            [] sv.kind = "int" -> [ok |-> TRUE, v |-> <<Itoa(sv.val)>>]
            [] sv.kind = "bool" -> [ok |-> TRUE, v |-> <<IF sv.val THEN "1" ELSE "0">>])

(***************************************************************************)
(* The file system and viper's search for the configuration file           *)
(***************************************************************************)
HomeDir == "/home/u"

\* configDir := home + "/.config/gonzo"
ConfigDir == HomeDir \o "/.config/gonzo"

\* a path given with --config
ExplicitPath == "/etc/gonzo.yml"

\* the file the flag's help text names: $HOME/.config/gonzo/config.yml
DefaultPath == ConfigDir \o "/" \o "config" \o "." \o "yml"

FsPaths == {ExplicitPath, DefaultPath}

\* viper.SupportedExts
SupportedExts ==
  <<"json", "toml", "yaml", "yml", "properties", "props", "prop", "hcl", "tfvars",
    "dotenv", "env", "ini">>

EmptyDoc == [k \in {} |-> ""]

MissingFile == [exists |-> FALSE, valid |-> FALSE, doc |-> EmptyDoc]

InvalidFile == [exists |-> TRUE, valid |-> FALSE, doc |-> EmptyDoc]

YamlFile(doc) == [exists |-> TRUE, valid |-> TRUE, doc |-> doc]

Exists(files, p) == p \in DOMAIN files /\ files[p].exists

\* viper.searchInPath: <dir>/<name>.<ext> for the first supported extension
\* that exists, then <dir>/<name> when a config type is set; "" when none
SearchInPath(files, dir, name, type) ==
  LET hits == {i \in 1..Len(SupportedExts) :
                 Exists(files, dir \o "/" \o name \o "." \o SupportedExts[i])}
  IN  IF hits # {}
      THEN dir \o "/" \o name \o "." \o
             SupportedExts[CHOOSE i \in hits : \A j \in hits : i <= j]
      ELSE IF type # "" /\ Exists(files, dir \o "/" \o name) THEN dir \o "/" \o name
      ELSE ""

\* viper.getConfigFile: the file set with SetConfigFile, else the first hit
\* in the config paths; "" when there is none
GetConfigFile(v, files) ==
  IF v.configFile # "" THEN v.configFile
  ELSE LET hits == {i \in 1..Len(v.configPaths) :
                      SearchInPath(files, v.configPaths[i], v.configName, v.configType) # ""}
       IN  IF hits = {} THEN ""
           ELSE SearchInPath(files, v.configPaths[CHOOSE i \in hits : \A j \in hits : i <= j],
                             v.configName, v.configType)

\* viper.ReadInConfig: err == nil iff a file was found, read and parsed
ReadOK(v, files) ==
  LET p == GetConfigFile(v, files)
  IN  p # "" /\ Exists(files, p) /\ files[p].valid

\* v.config after viper.ReadInConfig: replaced only by a document that parsed
ReadInConfig(v, files) ==
  IF ReadOK(v, files) THEN files[GetConfigFile(v, files)].doc ELSE v.config

\* package viper's global instance after viper.New()
NewViper ==
  [configFile |-> "", configPaths |-> <<>>, configName |-> "config", configType |-> "",
   envPrefix |-> "", automaticEnvApplied |-> FALSE, envKeyReplacer |-> <<>>,
   config |-> EmptyDoc, configFileUsed |-> ""]

(***************************************************************************)
(* State                                                                   *)
(***************************************************************************)
VARIABLES
  args,       \* the command line: flag name -> the text given for it
  environ,    \* the process environment: variable name -> value
  fs,         \* the file system: path -> file
  homeOK,     \* whether os.UserHomeDir() returns without error
  pc,         \* "start", "parsed", "running", "exited"
  exitCode,   \* the exit status once pc = "exited"
  cfgFile,    \* var cfgFile string, the storage of --config
  flagVal,    \* the stored value of every other flag
  changed,    \* the flags with Changed set
  viper,      \* package viper's global instance
  cfg,        \* var cfg Config
  initRuns,   \* how many times initConfig has run
  cfgWrites,  \* how many times cfg has been written
  started     \* whether the handler runApp has started

inputs == <<args, environ, fs, homeOK>>

vars == <<args, environ, fs, homeOK, pc, exitCode, cfgFile, flagVal, changed, viper,
          cfg, initRuns, cfgWrites, started>>

\* the flags whose value lives in the flag set (--config lives in cfgFile)
ValueFlags == FlagNames \ {"config"}

\* initConfig registered twice
InitializersTwice == <<"initConfig", "initConfig">>

\* cobra.OnInitialize(initConfig): the initializers Execute runs before the handler
Initializers == <<"initConfig">>

(***************************************************************************)
(* initConfig, main.go lines 187-218                                       *)
(***************************************************************************)
\* a locator that prefers the per-user directory to the path given
LocateHomeFirst(v, file, home) ==
  IF home
  THEN [v EXCEPT !.configPaths = Append(v.configPaths, ConfigDir),
                 !.configType = "yaml",
                 !.configName = "config"]
  ELSE IF file # "" THEN [v EXCEPT !.configFile = file]
  ELSE v

\* lines 188-202: where the configuration file is looked for
Locate(v, file, home) ==
  IF file # "" THEN [v EXCEPT !.configFile = file]
  ELSE IF ~home THEN v
  ELSE [v EXCEPT !.configPaths = Append(v.configPaths, ConfigDir),
                 !.configType = "yaml",
                 !.configName = "config"]

\* lines 204-207: the environment reader
SetupEnv(v) ==
  [v EXCEPT !.envPrefix = EnvPrefix,
            !.automaticEnvApplied = TRUE,
            !.envKeyReplacer = <<"-", "_">>]

\* lines 209-212: the file reader
ReadConfig(v, files) ==
  [v EXCEPT !.config = ReadInConfig(v, files),
            !.configFileUsed = IF ReadOK(v, files) THEN GetConfigFile(v, files) ELSE ""]

\* viper.AllSettings()[k]: the value of key k, Nil when k is not among
\* viper.AllKeys or its lookup gives nothing
Setting(k, v, chg, fv, env) ==
  IF k \in AllKeys(v.config) THEN Find(k, chg, fv, env, v.config) ELSE Nil

\* the decoding of field k of Config by viper.Unmarshal; none when
\* AllSettings holds no value for it
DecodeField(k, v, chg, fv, env) ==
  LET sv == Setting(k, v, chg, fv, env)
  IN  IF sv = Nil THEN [set |-> FALSE, ok |-> TRUE]
      ELSE LET d == Decode(FieldType(k), sv)
           IN  [set |-> d.ok, ok |-> d.ok, v |-> d.v]

\* the error of viper.Unmarshal dropped
UnmarshalErrorIgnored(v, chg, fv, env) == FALSE

\* line 215: whether viper.Unmarshal(&cfg) returns an error
UnmarshalFails(v, chg, fv, env) ==
  \E k \in ConfigFields : ~DecodeField(k, v, chg, fv, env).ok

\* line 215: cfg after viper.Unmarshal(&cfg); a field without a value, or
\* whose value does not decode, is left as it was
Unmarshal(c, v, chg, fv, env) ==
  [k \in ConfigFields |->
     LET d == DecodeField(k, v, chg, fv, env)
     IN  IF d.set THEN d.v ELSE c[k]]

(***************************************************************************)
(* Inputs                                                                  *)
(***************************************************************************)
\* the longest text drawn for a string-list value
MaxRawLen == 3

\* the command-line text that gives a flag its own default
DefaultRaw(f) ==
  IF f \in StringSliceFlags THEN "" ELSE PflagString(FlagType(f), FlagDefault(f))

FlagRaws(f) ==
  {DefaultRaw(f)} \cup
    (CASE f \in IntFlags -> {"5000", "abc"}
       [] f \in DurationFlags -> {"2s", "abc"}
       [] f \in BoolFlags -> {"true", "maybe"}
       [] f = "config" -> {ExplicitPath}
       [] f \in StringFlags \ {"config"} -> {"dracula"}
       [] f \in StringSliceFlags -> {"foo,bar,baz"})

EnvRaws(t) ==
  {""} \cup
    (CASE t = "int" -> {"8000", "x1"}
       [] t = "duration" -> {"3s", "soon"}
       [] t = "bool" -> {"true", "yes"}
       [] t = "string" -> {"monokai"}
       [] t = "stringSlice" -> {"b,a,b"})

FileRaws(t) ==
  CASE t = "int" -> {"2000", "two"}
    [] t = "duration" -> {"5s", "never"}
    [] t = "bool" -> {"true", "nope"}
    [] t = "string" -> {"nord"}
    [] t = "stringSlice" -> {"x,y"}

\* the identifiers a setting goes by: its flag name and its viper key
Idents(f) == IF f = "file" THEN {"file", "files"} ELSE {f}

\* the environment names tried for an identifier: the one the transformation
\* gives, the same without the prefix, and with the hyphens kept
EnvCandidates(id) ==
  {EnvKey(id), ReplaceChar(ToUpper(id), "-", "_"), ToUpper(EnvPrefix \o "_" \o id)}

\* functions with at most one argument
Single(names, values) ==
  {EmptyDoc} \cup UNION {{[x \in {n} |-> v] : v \in values} : n \in names}

Files(f) ==
  {MissingFile, InvalidFile} \cup
    {YamlFile(d) : d \in Single(Idents(f), FileRaws(FlagType(f)))}

\* the command lines about flag f: f and --config, each given or not
ArgChoices(f) ==
  {a \in UNION {[D -> UNION {FlagRaws(g) : g \in D}] : D \in SUBSET {f, "config"}} :
     \A g \in DOMAIN a : a[g] \in FlagRaws(g)}

Start ==
  /\ pc = "start"
  /\ exitCode = 0
  /\ cfgFile = ""
  /\ flagVal = [f \in ValueFlags |-> FlagDefault(f)]
  /\ changed = {}
  /\ viper = NewViper
  /\ cfg = ZeroConfig
  /\ initRuns = 0
  /\ cfgWrites = 0
  /\ started = FALSE

\* one process start: any command line, environment and files about one flag
Init ==
  /\ \E f \in FlagNames :
       /\ args \in ArgChoices(f)
       /\ environ \in Single(UNION {EnvCandidates(id) : id \in Idents(f)},
                             EnvRaws(FlagType(f)))
       /\ fs \in [FsPaths -> Files(f)]
  /\ homeOK \in BOOLEAN
  /\ Start

(***************************************************************************)
(* Actions                                                                 *)
(***************************************************************************)
\* rootCmd.Execute(), line 221: the command line is parsed against the flag
\* set; a value its flag does not accept ends the run with status 1 (lines
\* 222-223) before any initializer runs
ParseFlags ==
  /\ pc = "start"
  /\ IF \E f \in DOMAIN args : ~PflagSet(FlagType(f), args[f]).ok
     THEN /\ pc' = "exited"
          /\ exitCode' = 1
          /\ UNCHANGED <<cfgFile, flagVal, changed>>
     ELSE /\ pc' = "parsed"
          /\ cfgFile' = IF "config" \in DOMAIN args THEN args["config"] ELSE cfgFile
          /\ flagVal' = [f \in ValueFlags |->
                           IF f \in DOMAIN args THEN PflagSet(FlagType(f), args[f]).v
                           ELSE flagVal[f]]
          /\ changed' = DOMAIN args
          /\ UNCHANGED exitCode
  /\ UNCHANGED <<inputs, viper, cfg, initRuns, cfgWrites, started>>

\* initConfig(), lines 187-218, run by cobra as an initializer
InitConfig ==
  /\ pc = "parsed"
  /\ initRuns < Len(Initializers)
  /\ LET v == ReadConfig(SetupEnv(Locate(viper, cfgFile, homeOK)), fs)
     IN  /\ viper' = v
         /\ cfg' = Unmarshal(cfg, v, changed, flagVal, environ)
         /\ IF UnmarshalFails(v, changed, flagVal, environ)
            THEN pc' = "exited" /\ exitCode' = 1
            ELSE UNCHANGED <<pc, exitCode>>
  /\ initRuns' = initRuns + 1
  /\ cfgWrites' = cfgWrites + 1
  /\ UNCHANGED <<inputs, cfgFile, flagVal, changed, started>>

\* RunE: runApp, line 119: the handler starts once the initializers are done
RunApp ==
  /\ pc = "parsed"
  /\ initRuns = Len(Initializers)
  /\ pc' = "running"
  /\ started' = TRUE
  /\ UNCHANGED <<inputs, exitCode, cfgFile, flagVal, changed, viper, cfg, initRuns,
                 cfgWrites>>

\* main(), lines 220-225: the handler returns nil or an error
Exit ==
  /\ pc = "running"
  /\ pc' = "exited"
  /\ exitCode' \in {0, 1}
  /\ UNCHANGED <<inputs, cfgFile, flagVal, changed, viper, cfg, initRuns, cfgWrites,
                 started>>

Next == ParseFlags \/ InitConfig \/ RunApp \/ Exit

Spec == Init /\ [][Next]_vars

(***************************************************************************)
(* String-list values: every text up to MaxRawLen over a small alphabet,   *)
(* given for one string-list setting by one source                         *)
(***************************************************************************)
ListAlphabet == {"a", "b", Comma, Quote}

RECURSIVE TextsOfLen(_)
TextsOfLen(n) ==
  IF n = 0 THEN {""} ELSE {t \o c : t \in TextsOfLen(n - 1), c \in ListAlphabet}

ListRaws == UNION {TextsOfLen(n) : n \in 0..MaxRawLen}

InitList ==
  /\ \E f \in StringSliceFlags, raw \in ListRaws, src \in {"flag", "env", "file"} :
       /\ args = IF src = "flag" THEN [x \in {f} |-> raw] ELSE EmptyDoc
       /\ environ = IF src = "env" THEN [x \in {EnvKey(IF f = "file" THEN "files" ELSE f)} |-> raw]
                    ELSE EmptyDoc
       /\ fs = [p \in FsPaths |->
                  IF src = "file" /\ p = DefaultPath
                  THEN YamlFile([x \in {IF f = "file" THEN "files" ELSE f} |-> raw])
                  ELSE MissingFile]
  /\ homeOK = TRUE
  /\ Start

SpecList == InitList /\ [][Next]_vars

(***************************************************************************)
(* Properties                                                              *)
(***************************************************************************)
\* the flags that are settings: all but --version, which Config has no field for
SchemaKeys == FlagNames \ {"version"}

\* the field of Config that holds the setting of flag f
FieldOf(f) == IF f = "file" THEN "files" ELSE f

\* the flag of the setting held by field k of Config
FlagOf(k) == IF k = "files" THEN "file" ELSE k

\* GONZO_<KEY upper-cased, hyphens replaced by underscores>
EnvNameFor == [k \in FlagNames \cup ConfigFields |->
                 "GONZO_" \o ReplaceChar(ToUpper(k), "-", "_")]

\* the built-in default of each field of Config
DefaultTable(k) ==
  CASE k = "memory-size" -> 10000
    [] k = "update-interval" -> 1000
    [] k = "log-buffer" -> 1000
    [] k = "otlp-grpc-port" -> 4317
    [] k = "otlp-http-port" -> 4318
    [] k = "vmlogs-query" -> "*"
    [] k = "skin" -> "default"
    [] k \in BoolFields -> FALSE
    [] k \in StringSliceFields -> <<>>
    [] OTHER -> ""

\* whether the text is a value of the type
Convertible(t, raw) ==
  CASE t = "int" -> ParseInt(raw).ok
    [] t = "duration" -> ParseDuration(raw).ok
    [] t = "bool" -> ParseBool(raw).ok
    [] OTHER -> TRUE

\* the value of the type that the text denotes
FromText(t, raw) ==
  CASE t = "int" -> ParseInt(raw).v
    [] t = "duration" -> ParseDuration(raw).v
    [] t = "bool" -> ParseBool(raw).v
    [] t = "string" -> raw
    [] t = "stringSlice" -> IF raw = "" THEN <<>> ELSE Split(raw, Comma)

\* the document of the configuration file that was read, empty when none was
DocRead == IF viper.configFileUsed = "" THEN EmptyDoc ELSE fs[viper.configFileUsed].doc

\* the record has been resolved and handed to the application
Handed == pc = "running"

\* C1: a flag supplied on the command line decides its setting in cfg, for
\* every setting of the flag schema, config and file included.
C1_FlagWins ==
  Handed =>
    \A f \in SchemaKeys \cap DOMAIN args :
      cfg[FieldOf(f)] = FromText(FlagType(f), args[f])

\* What holds of C1: a supplied flag decides every setting bound to viper.
FlagWinsWhenBound ==
  Handed =>
    \A f \in (SchemaKeys \ {"config"}) \cap DOMAIN args :
      cfg[FieldOf(f)] = FromText(FlagType(f), args[f])

WithoutEnv(k) ==
  IF k \in DOMAIN DocRead THEN FromText(FieldType(k), DocRead[k]) ELSE DefaultTable(k)

C3_FileByFlagName ==
  Handed =>
    \A f \in SchemaKeys \ DOMAIN args :
      (EnvNameFor[f] \notin DOMAIN environ /\ f \in DOMAIN DocRead)
        => cfg[FieldOf(f)] = FromText(FlagType(f), DocRead[f])

\* C3: without flag and variable, a setting that the file read defines under
\* the key of its field of Config (the flag's name, but files for --file)
\* takes the file's value, not the default.
C3_FileValue ==
  Handed =>
    \A k \in ConfigFields :
      (FlagOf(k) \notin DOMAIN args /\ EnvNameFor[k] \notin DOMAIN environ
         /\ k \in DOMAIN DocRead)
        => cfg[k] = FromText(FieldType(k), DocRead[k])

C3_Witness ==
  /\ Handed
  /\ args = EmptyDoc
  /\ environ = EmptyDoc
  /\ "files" \in DOMAIN DocRead
  /\ cfg["files"] = <<"x", "y">>

\* C4: a setting that no flag, no variable and no file gives has its
\* built-in default.
C4_Defaults ==
  Handed =>
    \A k \in ConfigFields :
      (FlagOf(k) \notin DOMAIN args /\ EnvNameFor[k] \notin DOMAIN environ
         /\ k \notin DOMAIN DocRead)
        => cfg[k] = DefaultTable(k)

C4_Witness ==
  /\ Handed
  /\ args = EmptyDoc
  /\ environ = EmptyDoc
  /\ DocRead = EmptyDoc
  /\ cfg["vmlogs-query"] = "*"
  /\ cfg["memory-size"] = 10000

\* the texts present for the setting of flag f: on the command line, in its
\* variable (an empty variable counted as absent) and in the file that is read
PresentTexts(f) ==
  (IF f \in DOMAIN args THEN {args[f]} ELSE {})
    \cup (IF EnvNameFor[FieldOf(f)] \in DOMAIN environ
          THEN {environ[EnvNameFor[FieldOf(f)]]} \ {""} ELSE {})
    \cup (IF FieldOf(f) \in DOMAIN DocRead THEN {DocRead[FieldOf(f)]} ELSE {})

Selected(k) ==
  IF k # "config" /\ FlagOf(k) \in DOMAIN args THEN {args[FlagOf(k)]}
  ELSE IF k # "config" /\ EnvNameFor[k] \in DOMAIN environ /\ environ[EnvNameFor[k]] # ""
  THEN {environ[EnvNameFor[k]]}
  ELSE IF k \in DOMAIN DocRead THEN {DocRead[k]}
  ELSE {}

\* some flag is given a text its type does not accept
BadFlag == \E f \in DOMAIN args : ~Convertible(FlagType(f), args[f])

\* some field's selected text is not a value of its type
BadSelected == \E k \in ConfigFields : \E raw \in Selected(k) : ~Convertible(FieldType(k), raw)

WithoutFile(k) ==
  IF FlagOf(k) \in DOMAIN args THEN FromText(FieldType(k), args[FlagOf(k)])
  ELSE IF k \in BoundKeys /\ EnvNameFor[k] \in DOMAIN environ /\ environ[EnvNameFor[k]] # ""
  THEN FromText(FieldType(k), environ[EnvNameFor[k]])
  ELSE DefaultTable(k)

\* C6: when no configuration file can be used, resolution is set up and
\* completes all the same, and every setting comes from its flag, then its
\* variable, then its default.
C6_NoFile ==
  (initRuns > 0 /\ viper.configFileUsed = "")
    => /\ viper.envPrefix = "GONZO" /\ viper.automaticEnvApplied
       /\ (pc = "exited" /\ ~started) => BadSelected
       /\ started => \A k \in ConfigFields : cfg[k] = WithoutFile(k)

\* What holds of C6: the same, for every setting bound to viper.
NoFileWhenBound ==
  (initRuns > 0 /\ viper.configFileUsed = "")
    => /\ viper.envPrefix = "GONZO" /\ viper.automaticEnvApplied
       /\ (pc = "exited" /\ ~started) => BadSelected
       /\ started => \A k \in BoundKeys : cfg[k] = WithoutFile(k)

Usable(p) == fs[p].exists /\ fs[p].valid

\* C8: a non-empty --config path is the file to read, verbatim, whether or
\* not it exists, and the per-user directory is not consulted; otherwise the
\* file is config, of type YAML, in <home>/.config/gonzo.
C8_Locator ==
  initRuns > 0 =>
    IF "config" \in DOMAIN args /\ args["config"] # ""
    THEN /\ viper.configFile = args["config"]
         /\ viper.configPaths = <<>>
         /\ viper.configFileUsed = IF Usable(args["config"]) THEN args["config"] ELSE ""
         /\ viper.config = IF Usable(args["config"]) THEN fs[args["config"]].doc ELSE EmptyDoc
    ELSE /\ viper.configFile = ""
         /\ IF homeOK
            THEN /\ viper.configPaths = <<"/home/u/.config/gonzo">>
                 /\ viper.configName = "config"
                 /\ viper.configType = "yaml"
                 /\ viper.configFileUsed
                      = IF Usable("/home/u/.config/gonzo/config.yml")
                        THEN "/home/u/.config/gonzo/config.yml" ELSE ""
            ELSE viper.configPaths = <<>> /\ viper.configFileUsed = ""

C8_Witness ==
  /\ initRuns > 0
  /\ "config" \in DOMAIN args
  /\ args["config"] = ExplicitPath
  /\ ~fs[ExplicitPath].exists
  /\ Usable(DefaultPath)
  /\ fs[DefaultPath].doc # EmptyDoc
  /\ viper.config = EmptyDoc

ListText(k) ==
  IF FlagOf(k) \in DOMAIN args THEN args[FlagOf(k)]
  ELSE IF EnvNameFor[k] \in DOMAIN environ /\ environ[EnvNameFor[k]] # ""
  THEN environ[EnvNameFor[k]]
  ELSE IF k \in DOMAIN DocRead THEN DocRead[k]
  ELSE ""

\* l is the sequence of the comma-separated items of text
IsCommaItems(l, text) ==
  /\ Join(l, Comma) = text
  /\ \A i \in 1..Len(l) : ~Contains(l[i], Comma)

\* C10 as stated: a string-list setting is the sequence of the
\* comma-separated items of its text, whichever source gave it.
C10_CommaItemsAnySource ==
  Handed => \A k \in StringSliceFields : IsCommaItems(cfg[k], ListText(k))

\* C10: a string-list setting is the sequence of the comma-separated items
\* of its text, in order and with duplicates, when the text comes from the
\* environment or the file, or from a flag and holds no double quote.
C10_CommaItems ==
  Handed =>
    \A k \in StringSliceFields :
      (FlagOf(k) \in DOMAIN args => ~Contains(args[FlagOf(k)], Quote))
        => IsCommaItems(cfg[k], ListText(k))

C10_Witness ==
  /\ Handed
  /\ "stop-words" \in DOMAIN args
  /\ args["stop-words"] = "a,a"
  /\ cfg["stop-words"] = <<"a", "a">>

====
